---- MODULE Spec2Model ----
(***************************************************************************)
(* Model of streamlit_app.py: the coordinate-string parser                 *)
(* (parse_and_convert_coordinates), the path loader (load_data), the       *)
(* pedestrian quarter-hour aggregator                                      *)
(* (process_pedestrian_data_per_quarter_hour), and the script's segment    *)
(* selector and segment-details panel.                                     *)
(*                                                                         *)
(* A text is a sequence of lexemes (the tokens Python's tokenizer would    *)
(* cut it into, plus the whitespace lexeme " ").  Python values are tagged *)
(* records [t, n, s, items]; a float carries its value in hundredths, so   *)
(* that int -> float conversion is visible (18 becomes 1800 hundredths).   *)
(***************************************************************************)
EXTENDS Integers, Sequences, FiniteSets, TLC

VARIABLES
    pc,                 \* position of the function under analysis
    coord_str,          \* argument of parse_and_convert_coordinates
    lat_lon_list,       \* its return value
    path_csv,           \* rows of the segment path file, as read_csv yields them
    processed_path_df,  \* first return value of load_data
    num_failed,         \* load_data local (-1: not computed)
    num_empty_original, \* load_data local (-1: not computed)
    num_successfully_parsed, \* load_data local (-1: not computed)
    ped_csv,            \* rows of the pedestrian event file
    Pedestrian_df,      \* return value of process_pedestrian_data_per_quarter_hour
    st_log,             \* st.warning / st.error / st.code calls, in order
    stdout,             \* print() calls, in order
    raised,             \* exception that escaped the function ("" if none)
    segment_options,    \* options of the segment selector (<<>>: not built)
    selected_segment_id, \* the option chosen ("": none yet)
    details             \* what the segment-details panel showed ("": nothing)

vars == <<pc, coord_str, lat_lon_list, path_csv, processed_path_df, num_failed,
          num_empty_original, num_successfully_parsed, ped_csv, Pedestrian_df,
          st_log, stdout, raised, segment_options, selected_segment_id,
          details>>

-----------------------------------------------------------------------------
(* Bounds of the model *)

MaxRawLen == 3      \* longest arbitrary lexeme sequence given to the parser
MaxElems == 2       \* most elements of a well-bracketed coordinate list
MaxPathRows == 2    \* most rows of the path file
MaxPedRows == 3     \* most rows of the pedestrian file
MaxFailedRows == 12 \* most rows of a path file made of failed rows
MaxSegments == 3    \* most rows of the path file the selector is built from

-----------------------------------------------------------------------------
(* Python values *)

PyVal(t, n, s, items) == [t |-> t, n |-> n, s |-> s, items |-> items]
PyInt(n) == PyVal("int", n, "", <<>>)
PyBigInt == PyVal("int", 0, "big", <<>>)       \* an int above the float range
PyFloat(c) == PyVal("float", c, "", <<>>)      \* c hundredths
PyInf == PyVal("float", 0, "inf", <<>>)
PyNaN == PyVal("float", 0, "nan", <<>>)
PyStr(s) == PyVal("str", 0, s, <<>>)
PyNone == PyVal("NoneType", 0, "", <<>>)
PyTuple(items) == PyVal("tuple", 0, "", items)
PyList(items) == PyVal("list", 0, "", items)

(* With(v, F) is F(v) with v computed once: a local variable. *)
With(v, F(_)) == CHOOSE y \in {F(x) : x \in {v}} : TRUE

(* Exceptions are values too: a result is either Ok(v) or Exc(name). *)
Ok(v) == [ok |-> TRUE, val |-> v, exc |-> ""]
Exc(name) == [ok |-> FALSE, val |-> PyNone, exc |-> name]

-----------------------------------------------------------------------------
(* Lexemes and ast.literal_eval *)

BigLex == "10...0(401 digits)"   \* the integer literal 1 followed by 400 zeros
Ws == " "

(* What the tokenizer and the literal converter make of each literal lexeme. *)
NumberLexemes == {"18.07", "59.35", "18.08", "18", "1", "2", "3", "1e999", BigLex}
StringLexemes == {"'bad'", "'59.35'"}
LiteralLexemes == NumberLexemes \cup StringLexemes \cup {"None"}
NameLexemes == {"bad", "a", "list"}

LitValue(tok) ==
    CASE tok = "18.07" -> PyFloat(1807)
      [] tok = "59.35" -> PyFloat(5935)
      [] tok = "18.08" -> PyFloat(1808)
      [] tok = "18" -> PyInt(18)
      [] tok = "1" -> PyInt(1)
      [] tok = "2" -> PyInt(2)
      [] tok = "3" -> PyInt(3)
      [] tok = "1e999" -> PyInf
      [] tok = BigLex -> PyBigInt
      [] tok = "'bad'" -> PyStr("bad")
      [] tok = "'59.35'" -> PyStr("59.35")
      [] tok = "None" -> PyNone

(* str.strip(): drop leading and trailing whitespace lexemes. *)
RECURSIVE LStrip(_)
LStrip(text) ==
    IF text # <<>> /\ Head(text) = Ws THEN LStrip(Tail(text)) ELSE text

RECURSIVE RStrip(_)
RStrip(text) ==
    IF text # <<>> /\ text[Len(text)] = Ws
    THEN RStrip(SubSeq(text, 1, Len(text) - 1)) ELSE text

strip(text) == RStrip(LStrip(text))

(* The tokenizer ignores whitespace between tokens. *)
Tokenize(text) == SelectSeq(text, LAMBDA tok : tok # Ws)

EOF == "<EOF>"
PFail == [ok |-> FALSE, val |-> PyNone, pos |-> 0]
POk(v, pos) == [ok |-> TRUE, val |-> v, pos |-> pos]
EFail == [ok |-> FALSE, items |-> <<>>, pos |-> 0, comma |-> FALSE]

(* Recursive descent over the token sequence: an expression starting at    *)
(* toks[i], and a comma-separated element list up to the closing token.    *)
(* Names, "not" and stray punctuation are rejected: Python rejects them    *)
(* with SyntaxError, or parses them and literal_eval raises ValueError     *)
(* ("malformed node or string"); the caller treats both the same way.      *)
RECURSIVE ParseExpr(_, _)
RECURSIVE ParseElems(_, _, _, _, _)

ParseExpr(toks, i) ==
    IF i > Len(toks) THEN PFail
    ELSE LET tok == toks[i] IN
         IF tok \in LiteralLexemes THEN POk(LitValue(tok), i + 1)
         ELSE IF tok = "["
         THEN LET r == ParseElems(toks, i + 1, "]", <<>>, FALSE) IN
              IF r.ok THEN POk(PyList(r.items), r.pos) ELSE PFail
         ELSE IF tok = "("
         THEN LET r == ParseElems(toks, i + 1, ")", <<>>, FALSE) IN
              IF ~r.ok THEN PFail
              ELSE IF Len(r.items) = 1 /\ ~r.comma
                   THEN POk(r.items[1], r.pos)      \* (e) is e, not a tuple
                   ELSE POk(PyTuple(r.items), r.pos)
         ELSE PFail

ParseElems(toks, i, close, acc, comma) ==
    IF i > Len(toks) THEN EFail
    ELSE IF toks[i] = close
    THEN [ok |-> TRUE, items |-> acc, pos |-> i + 1, comma |-> comma]
    ELSE LET e == ParseExpr(toks, i) IN
         IF ~e.ok \/ e.pos > Len(toks) THEN EFail
         ELSE IF toks[e.pos] = ","
         THEN ParseElems(toks, e.pos + 1, close, Append(acc, e.val), TRUE)
         ELSE IF toks[e.pos] = close
         THEN [ok |-> TRUE, items |-> Append(acc, e.val), pos |-> e.pos + 1,
               comma |-> comma]
         ELSE EFail

(* ast.literal_eval(text): the value of the text, or the exception raised. *)
(* A top-level "a, b" is a tuple, as in any Python expression.             *)
literal_eval(text) ==
    LET toks == Tokenize(text) \o <<EOF>>
        r == ParseElems(toks, 1, EOF, <<>>, FALSE)
    IN  IF ~r.ok \/ r.items = <<>> THEN Exc("SyntaxError|ValueError")
        ELSE IF Len(r.items) = 1 /\ ~r.comma THEN Ok(r.items[1])
        ELSE Ok(PyTuple(r.items))

(* The texts of the integers 1..16 and of the floats 1.0..16.0, as str()    *)
(* writes them.                                                             *)
DecimalText == <<"1", "2", "3", "4", "5", "6", "7", "8", "9", "10", "11", "12",
                 "13", "14", "15", "16">>
FloatText == <<"1.0", "2.0", "3.0", "4.0", "5.0", "6.0", "7.0", "8.0", "9.0",
               "10.0", "11.0", "12.0", "13.0", "14.0", "15.0", "16.0">>
IntTexts == {DecimalText[k] : k \in DOMAIN DecimalText}
FloatTexts == {FloatText[k] : k \in DOMAIN FloatText}
IntValue(text) == CHOOSE k \in DOMAIN DecimalText : DecimalText[k] = text
FloatValue(text) == CHOOSE k \in DOMAIN FloatText : FloatText[k] = text

(* float(s) of a str: "inf" and "nan" are floats too; any other text that   *)
(* is no number raises ValueError.                                          *)
str_to_float(s) ==
    IF s \in IntTexts THEN Ok(PyFloat(IntValue(s) * 100))
    ELSE IF s \in FloatTexts THEN Ok(PyFloat(FloatValue(s) * 100))
    ELSE IF s = "2.5" THEN Ok(PyFloat(250))
    ELSE IF s = "59.35" THEN Ok(PyFloat(5935))
    ELSE IF s = "inf" THEN Ok(PyInf)
    ELSE IF s = "nan" THEN Ok(PyNaN)
    ELSE Exc("ValueError")

(* int(s) of a str: only the text of an integer converts. *)
str_to_int(s) ==
    IF s \in IntTexts THEN Ok(PyInt(IntValue(s))) ELSE Exc("ValueError")

(* float(v) *)
py_float(v) ==
    CASE v.t = "float" -> Ok(v)
      [] v.t = "int" -> IF v.s = "big" THEN Exc("OverflowError")
                        ELSE Ok(PyFloat(v.n * 100))
      [] v.t = "str" -> str_to_float(v.s)
      [] OTHER -> Exc("TypeError")

(* int(v) *)
py_int(v) ==
    CASE v.t = "int" -> Ok(v)
      [] v.t = "float" -> IF v.s = "inf" THEN Exc("OverflowError")
                          ELSE IF v.s = "nan" THEN Exc("ValueError")
                          ELSE Ok(PyInt(v.n \div 100))
      [] v.t = "str" -> str_to_int(v.s)
      [] OTHER -> Exc("TypeError")

-----------------------------------------------------------------------------
(* parse_and_convert_coordinates *)

(* Arguments: a str (its text) or a value of another type. *)
StrArg(text) == [isstr |-> TRUE, text |-> text, val |-> PyNone]
OtherArg(v) == [isstr |-> FALSE, text |-> <<>>, val |-> v]

(* One st.warning / st.error / st.code call. *)
StCall(fn, msg, item, seg, n) ==
    [fn |-> fn, msg |-> msg, item |-> item, seg |-> seg, n |-> n]
ItemWarning(msg, item) == StCall("warning", msg, item, "", 0)

(* What a call leaves behind: return value, st calls made, exception raised. *)
Returned(ret, log) == [ret |-> ret, st |-> log, raised |-> ""]
Raised(exc, log) == [ret |-> <<>>, st |-> log, raised |-> exc]

(* ConvertItems with the two st.warning calls (lines 62 and 66) left out:   *)
(* elements skipped without a word.                                         *)
RECURSIVE ConvertItemsSilently(_, _, _, _)
ConvertItemsSilently(items, i, lat_lon, log) ==
    IF i > Len(items) THEN Returned(lat_lon, log)
    ELSE LET item == items[i] IN
         IF item.t \in {"list", "tuple"} /\ Len(item.items) = 2
         THEN LET lat == py_float(item.items[2])
                  lon == py_float(item.items[1])
                  first == IF lat.ok THEN lon ELSE lat
              IN  IF first.ok
                  THEN ConvertItemsSilently(items, i + 1,
                           Append(lat_lon, <<lat.val, lon.val>>), log)
                  ELSE IF first.exc \in {"ValueError", "TypeError"}
                  THEN ConvertItemsSilently(items, i + 1, lat_lon, log)
                  ELSE Raised(first.exc, log)
         ELSE ConvertItemsSilently(items, i + 1, lat_lon, log)

(* ConvertItems as it would be had the "skip the whole segment" option of   *)
(* the comments at lines 63 and 67 been taken: a bad element empties the    *)
(* record.                                                                  *)
RECURSIVE ConvertItemsDropsRecord(_, _, _, _)
ConvertItemsDropsRecord(items, i, lat_lon, log) ==
    IF i > Len(items) THEN Returned(lat_lon, log)
    ELSE LET item == items[i] IN
         IF item.t \in {"list", "tuple"} /\ Len(item.items) = 2
         THEN LET lat == py_float(item.items[2])
                  lon == py_float(item.items[1])
                  first == IF lat.ok THEN lon ELSE lat
              IN  IF first.ok
                  THEN ConvertItemsDropsRecord(items, i + 1,
                           Append(lat_lon, <<lat.val, lon.val>>), log)
                  ELSE IF first.exc \in {"ValueError", "TypeError"}
                  THEN Returned(<<>>, Append(log, ItemWarning("non_numeric", item)))
                  ELSE Raised(first.exc, log)
         ELSE Returned(<<>>, Append(log, ItemWarning("non_conforming", item)))

(* Lines 54-68: the loop over the parsed list.  float(item[1]) is taken    *)
(* before float(item[0]); only ValueError and TypeError are caught here.   *)
RECURSIVE ConvertItems(_, _, _, _)
ConvertItems(items, i, lat_lon, log) ==
    IF i > Len(items) THEN Returned(lat_lon, log)
    ELSE LET item == items[i] IN
         IF item.t \in {"list", "tuple"} /\ Len(item.items) = 2
         THEN LET lat == py_float(item.items[2])
                  lon == py_float(item.items[1])
                  first == IF lat.ok THEN lon ELSE lat
              IN  IF first.ok
                  THEN ConvertItems(items, i + 1,
                                    Append(lat_lon, <<lat.val, lon.val>>), log)
                  ELSE IF first.exc \in {"ValueError", "TypeError"}
                  THEN ConvertItems(items, i + 1, lat_lon,
                                    Append(log, ItemWarning("non_numeric", item)))
                  ELSE Raised(first.exc, log)
         ELSE ConvertItems(items, i + 1, lat_lon,
                           Append(log, ItemWarning("non_conforming", item)))

(* The outer handler (line 72) catches SyntaxError, ValueError, TypeError. *)
ParseCaught == {"SyntaxError|ValueError", "SyntaxError", "ValueError", "TypeError"}

parse_and_convert_coordinates(arg) ==
    IF ~arg.isstr \/ strip(arg.text) = <<>> THEN Returned(<<>>, <<>>)
    ELSE LET lon_lat_list == literal_eval(arg.text) IN
         IF ~lon_lat_list.ok
         THEN IF lon_lat_list.exc \in ParseCaught
              THEN Returned(<<>>, <<StCall("error", "parse_error", PyNone, "", 0)>>)
              ELSE Raised(lon_lat_list.exc, <<>>)
         ELSE IF lon_lat_list.val.t # "list"
         THEN Returned(<<>>, <<ItemWarning("not_a_list", lon_lat_list.val)>>)
         ELSE LET r == ConvertItems(lon_lat_list.val.items, 1, <<>>, <<>>) IN
              IF r.raised \in ParseCaught
              THEN Returned(<<>>, Append(r.st, StCall("error", "parse_error",
                                                      PyNone, "", 0)))
              ELSE r

-----------------------------------------------------------------------------
(* Inputs of the parser *)

RECURSIVE SeqsUpTo(_, _)
SeqsUpTo(S, n) ==
    IF n = 0 THEN {<<>>}
    ELSE LET shorter == SeqsUpTo(S, n - 1) IN
         shorter \cup {Append(q, x) : q \in shorter, x \in S}

RawLexemes == {"[", "]", "(", ")", ",", "18.07", "59.35", "None", "bad", "not",
               BigLex}

(* Source text of one list element. *)
Pair(a, b) == <<"(", a, ",", Ws, b, ")">>
ElemTexts ==
    { Pair("18.07", "59.35"), Pair("18", "59.35"), Pair("'59.35'", "18"),
      <<"[", "18.08", ",", "18", "]">>,
      Pair("18.08", "'bad'"), Pair("18.08", "bad"), Pair("None", "18.07"),
      Pair(BigLex, "59.35"), Pair("59.35", BigLex), Pair(BigLex, "'bad'"),
      <<"(", "18.07", ")">>, <<"(", "18.07", ",", "59.35", ",", "18", ")">>,
      <<"18.07">> }

RECURSIVE Join(_)
Join(elems) ==
    IF elems = <<>> THEN <<>>
    ELSE IF Len(elems) = 1 THEN elems[1]
    ELSE elems[1] \o <<",", Ws>> \o Join(Tail(elems))

ListText(elems) == <<"[">> \o Join(elems) \o <<"]">>

BlankTexts == {<<>>, <<Ws>>, <<Ws, Ws>>}
NotAList == <<"not", Ws, "a", Ws, "list">>
BareBadExample == ListText(<<Pair("18.07", "59.35"), Pair("18.08", "bad")>>)
QuotedBadExample == ListText(<<Pair("18.07", "59.35"), Pair("18.08", "'bad'")>>)

CoordTexts ==
    SeqsUpTo(RawLexemes, MaxRawLen) \cup BlankTexts \cup {NotAList}
    \cup {ListText(es) : es \in SeqsUpTo(ElemTexts, MaxElems)}

CoordArgs ==
    {StrArg(text) : text \in CoordTexts}
    \cup {OtherArg(PyNone), OtherArg(PyNaN), OtherArg(PyInt(18))}

-----------------------------------------------------------------------------
(* The parser called on one argument *)

NoTable == <<>>

InitParse ==
    /\ pc = "parse"
    /\ coord_str \in CoordArgs
    /\ lat_lon_list = <<>>
    /\ path_csv = NoTable
    /\ processed_path_df = <<>>
    /\ num_failed = -1
    /\ num_empty_original = -1
    /\ num_successfully_parsed = -1
    /\ ped_csv = NoTable
    /\ Pedestrian_df = <<>>
    /\ st_log = <<>>
    /\ stdout = <<>>
    /\ raised = ""
    /\ segment_options = <<>>
    /\ selected_segment_id = ""
    /\ details = ""

ParseCall ==
    /\ pc = "parse"
    /\ \E r \in {parse_and_convert_coordinates(coord_str)} :
       /\ lat_lon_list' = r.ret
       /\ st_log' = r.st
       /\ raised' = r.raised
       /\ pc' = IF r.raised = "" THEN "returned" ELSE "raised"
    /\ UNCHANGED <<coord_str, path_csv, processed_path_df, num_failed,
                   num_empty_original, num_successfully_parsed, ped_csv,
                   Pedestrian_df, stdout, segment_options, selected_segment_id,
                   details>>

NextParse == ParseCall

SpecParse == InitParse /\ [][NextParse]_vars

-----------------------------------------------------------------------------
(* load_data *)

FailedDisplayCap == 10     \* failed_parsing_df.head(10)

(* A cell of the coordinates column as read_csv yields it: text, or absent  *)
(* (NaN).  segment_id is the text of the file's first field, "" when the    *)
(* field is empty.                                                          *)
TextCell(text) == [absent |-> FALSE, text |-> text]
AbsentCell == [absent |-> TRUE, text |-> <<>>]
PathRow(id, cell) == [segment_id |-> id, coordinates_str |-> cell]

(* Line 91: fillna('') *)
fillna(cell) == IF cell.absent THEN <<>> ELSE cell.text

(* Line 98: .apply(parse_and_convert_coordinates), row by row; an exception *)
(* of one call ends the apply.                                              *)
RECURSIVE ApplyParse(_, _, _, _)
ApplyParse(rows, i, done, log) ==
    IF i > Len(rows) THEN [rows |-> done, st |-> log, raised |-> ""]
    ELSE LET r == parse_and_convert_coordinates(StrArg(rows[i].coordinates_str)) IN
         IF r.raised # ""
         THEN [rows |-> done, st |-> log \o r.st, raised |-> r.raised]
         ELSE ApplyParse(rows, i + 1,
                         Append(done, [segment_id |-> rows[i].segment_id,
                                       coordinates_str |-> rows[i].coordinates_str,
                                       locations |-> r.ret]),
                         log \o r.st)

Min(a, b) == IF a < b THEN a ELSE b

(* The mask without its second condition: every row without points. *)
failed_mask_counts_blank(row) == Len(row.locations) = 0

(* Line 103: the mask of the rows whose parsing failed. *)
failed_parsing_mask(row) ==
    Len(row.locations) = 0 /\ strip(row.coordinates_str) # <<>>

(* Lines 106-114: the report of the failed rows, at most the first ten. *)
RECURSIVE FailedItems(_)
FailedItems(rows) ==
    IF rows = <<>> THEN <<>>
    ELSE <<StCall("error", "failed_segment", PyNone, Head(rows).segment_id, 0),
           StCall("code", "failed_extract", PyNone, Head(rows).segment_id, 0)>>
         \o FailedItems(Tail(rows))

FailedReport(failed_parsing_df) ==
    IF failed_parsing_df = <<>> THEN <<>>
    ELSE <<StCall("error", "failed_header", PyNone, "", 0)>>
         \o FailedItems(SubSeq(failed_parsing_df, 1,
                               Min(FailedDisplayCap, Len(failed_parsing_df))))
         \o (IF Len(failed_parsing_df) > FailedDisplayCap
             THEN <<StCall("error", "failed_more", PyNone, "",
                           Len(failed_parsing_df) - FailedDisplayCap)>>
             ELSE <<>>)

(* Line 119: the rows kept, with the two columns kept. *)
KeepRow(row) == Len(row.locations) > 0

Project(rows) ==
    [i \in 1..Len(rows) |->
        [segment_id |-> rows[i].segment_id, locations |-> rows[i].locations]]

(* Lines 100-127, once the column is parsed. *)
LoadReport(path_df) ==
    With(SelectSeq(path_df, failed_parsing_mask), LAMBDA failed_parsing_df :
        [processed_path_df |-> Project(SelectSeq(path_df, KeepRow)),
         st |-> FailedReport(failed_parsing_df)
                \o (IF Len(failed_parsing_df) > 0
                    THEN <<StCall("warning", "ignored_count", PyNone, "",
                                  Len(failed_parsing_df))>>
                    ELSE <<>>),
         num_failed |-> Len(failed_parsing_df),
         num_empty_original |->
             Len(path_df) - Len(SelectSeq(path_df, LAMBDA row :
                                    strip(row.coordinates_str) # <<>>)),
         num_successfully_parsed |-> Len(SelectSeq(path_df, KeepRow))])

(* Line 86: the type read_csv gives the segment_id column: int64 when every *)
(* field is an integer, float64 when every field is a number or missing,    *)
(* object (the texts themselves) otherwise.                                 *)
MissingTexts == {"", "nan"}
IdColumnType(table) ==
    IF \A i \in 1..Len(table) : table[i].segment_id \in IntTexts THEN "int64"
    ELSE IF \A i \in 1..Len(table) :
               table[i].segment_id \in IntTexts \cup FloatTexts \cup MissingTexts
                                        \cup {"2.5", "inf"}
    THEN "float64"
    ELSE "object"

(* Line 89: astype(str) of row i's segment_id: a missing field is NaN and   *)
(* becomes "nan"; in a float64 column the integer 3 becomes "3.0".          *)
astype_str(table, i) ==
    LET field == table[i].segment_id IN
    IF field \in MissingTexts THEN "nan"
    ELSE IF IdColumnType(table) = "float64" /\ field \in IntTexts
    THEN FloatText[IntValue(field)]
    ELSE field

(* Lines 89-91 *)
Filled(table) ==
    [i \in 1..Len(table) |->
        [segment_id |-> astype_str(table, i),
         coordinates_str |-> fillna(table[i].coordinates_str)]]

load_data(table) ==
    With(ApplyParse(Filled(table), 1, <<>>, <<>>), LAMBDA ap :
        IF ap.raised # ""
        THEN \* line 133: except Exception; processed_path_df stays empty
             [processed_path_df |-> <<>>,
              st |-> ap.st \o <<StCall("error", "load_exception", PyNone, "", 0),
                                StCall("error", "traceback", PyNone, "", 0)>>,
              num_failed |-> -1, num_empty_original |-> -1,
              num_successfully_parsed |-> -1]
        ELSE With(LoadReport(ap.rows), LAMBDA rep :
                 [rep EXCEPT !.st = ap.st \o rep.st]))

(* Inputs: the path file *)
GoodPair == Pair("18.07", "59.35")
PathCellTexts ==
    { <<>>, <<Ws>>, NotAList, ListText(<<GoodPair>>),
      ListText(<<Pair("18", "59.35"), GoodPair>>), QuotedBadExample,
      ListText(<<Pair("18.08", "'bad'")>>), <<"[", "]">>, GoodPair,
      ListText(<<GoodPair, Pair(BigLex, "59.35")>>) }
PathCells == {TextCell(text) : text \in PathCellTexts} \cup {AbsentCell}
SegmentIds == {"1", "2"}
PathRows == {PathRow(id, cell) : id \in SegmentIds, cell \in PathCells}

(* Long path files, to get past the cap of the failure report: row k has   *)
(* segment id k and fails to parse, but for at most one row, which is       *)
(* blank, parses, or makes the parser raise.                                *)
LongTable(n, pos, cell) ==
    [k \in 1..n |->
        PathRow(DecimalText[k], IF k = pos THEN cell ELSE TextCell(NotAList))]
OddCells ==
    {TextCell(<<Ws>>), TextCell(ListText(<<GoodPair>>)),
     TextCell(ListText(<<Pair(BigLex, "59.35")>>))}
LongTables ==
    {LongTable(n, pos, cell) :
        n \in (FailedDisplayCap - 1)..MaxFailedRows,
        pos \in {0, 1, FailedDisplayCap, FailedDisplayCap + 1},
        cell \in OddCells}

PathTables == SeqsUpTo(PathRows, MaxPathRows) \cup LongTables

InitLoad ==
    /\ pc = "load"
    /\ coord_str = OtherArg(PyNone)
    /\ lat_lon_list = <<>>
    /\ path_csv \in PathTables
    /\ processed_path_df = <<>>
    /\ num_failed = -1
    /\ num_empty_original = -1
    /\ num_successfully_parsed = -1
    /\ ped_csv = NoTable
    /\ Pedestrian_df = <<>>
    /\ st_log = <<>>
    /\ stdout = <<>>
    /\ raised = ""
    /\ segment_options = <<>>
    /\ selected_segment_id = ""
    /\ details = ""

LoadData ==
    /\ pc = "load"
    /\ \E r \in {load_data(path_csv)} :
       /\ processed_path_df' = r.processed_path_df
       /\ st_log' = r.st
       /\ num_failed' = r.num_failed
       /\ num_empty_original' = r.num_empty_original
       /\ num_successfully_parsed' = r.num_successfully_parsed
    /\ pc' = "loaded"
    /\ UNCHANGED <<coord_str, lat_lon_list, path_csv, ped_csv, Pedestrian_df,
                   stdout, raised, segment_options, selected_segment_id,
                   details>>

NextLoad == LoadData

SpecLoad == InitLoad /\ [][NextLoad]_vars

-----------------------------------------------------------------------------
(* process_pedestrian_data_per_quarter_hour *)

MinutesPerHour == 60
QuarterHour == 15          \* floor('15T')
LastHour == 23             \* %H
LastMinute == 59           \* %M

(* A time text is a sequence of characters. *)
Digits == {"0", "1", "2", "3", "4", "5", "6", "7", "8", "9"}
DigitVal(c) ==
    CASE c = "0" -> 0 [] c = "1" -> 1 [] c = "2" -> 2 [] c = "3" -> 3
      [] c = "4" -> 4 [] c = "5" -> 5 [] c = "6" -> 6 [] c = "7" -> 7
      [] c = "8" -> 8 [] c = "9" -> 9

(* The value of a field of one or two digits, or -1. *)
Field(chars) ==
    IF Len(chars) = 1 /\ chars[1] \in Digits THEN DigitVal(chars[1])
    ELSE IF Len(chars) = 2 /\ chars[1] \in Digits /\ chars[2] \in Digits
    THEN DigitVal(chars[1]) * 10 + DigitVal(chars[2])
    ELSE -1

(* Line 171: pd.to_datetime(text, format="%H:%M"): minutes since midnight,  *)
(* or ValueError when the text does not match the format.                   *)
to_datetime(chars) ==
    LET colons == {i \in 1..Len(chars) : chars[i] = ":"} IN
    IF Cardinality(colons) # 1 THEN Exc("ValueError")
    ELSE LET c == CHOOSE i \in colons : TRUE
             hour == Field(SubSeq(chars, 1, c - 1))
             minute == Field(SubSeq(chars, c + 1, Len(chars)))
         IN  IF hour < 0 \/ hour > LastHour \/ minute < 0 \/ minute > LastMinute
             THEN Exc("ValueError")
             ELSE Ok(PyInt(hour * MinutesPerHour + minute))

(* Line 172: .dt.floor('15T').dt.time *)
floor15(minutes) == minutes - (minutes % QuarterHour)

(* Lines 174-186 *)
RECURSIVE IntAll(_, _, _)
IntAll(ids, i, acc) ==
    IF i > Len(ids) THEN Ok(PyList(acc))
    ELSE LET pid == py_int(ids[i]) IN
         IF pid.ok THEN IntAll(ids, i + 1, Append(acc, pid.val)) ELSE pid

parse_id_list_from_string(cell) ==
    IF cell.absent \/ strip(cell.text) = <<>> THEN Ok(PyList(<<>>))
    ELSE LET ids == literal_eval(cell.text) IN
         IF ~ids.ok
         THEN IF ids.exc \in ParseCaught THEN Ok(PyList(<<>>)) ELSE ids
         ELSE IF ids.val.t # "list" THEN Ok(PyList(<<>>))
         ELSE LET r == IntAll(ids.val.items, 1, <<>>) IN
              IF ~r.ok /\ r.exc \in ParseCaught THEN Ok(PyList(<<>>)) ELSE r

(* Lines 171-172 and 188 over the whole table: the times first, then the    *)
(* identifier lists; the first exception ends the column's conversion.      *)
(* ConvertTimes as it would be with errors='coerce' and the unparseable     *)
(* rows dropped: row granularity.                                           *)
RECURSIVE ConvertTimesSkipsBadRows(_, _, _)
ConvertTimesSkipsBadRows(rows, i, acc) ==
    IF i > Len(rows) THEN [ok |-> TRUE, rows |-> acc, exc |-> ""]
    ELSE LET t == to_datetime(rows[i].time_rounded) IN
         IF ~t.ok THEN ConvertTimesSkipsBadRows(rows, i + 1, acc)
         ELSE ConvertTimesSkipsBadRows(rows, i + 1,
                  Append(acc, [segment_id |-> rows[i].segment_id,
                               time_rounded |-> floor15(t.val.n),
                               persons |-> rows[i].persons]))

(* ConvertTimes as a stream would do it: the rows before the first          *)
(* unparseable time are kept, the rest is dropped.                          *)
RECURSIVE ConvertTimesKeepsRowsBefore(_, _, _)
ConvertTimesKeepsRowsBefore(rows, i, acc) ==
    IF i > Len(rows) THEN [ok |-> TRUE, rows |-> acc, exc |-> ""]
    ELSE LET t == to_datetime(rows[i].time_rounded) IN
         IF ~t.ok THEN [ok |-> TRUE, rows |-> acc, exc |-> ""]
         ELSE ConvertTimesKeepsRowsBefore(rows, i + 1,
                  Append(acc, [segment_id |-> rows[i].segment_id,
                               time_rounded |-> floor15(t.val.n),
                               persons |-> rows[i].persons]))

RECURSIVE ConvertTimes(_, _, _)
ConvertTimes(rows, i, acc) ==
    IF i > Len(rows) THEN [ok |-> TRUE, rows |-> acc, exc |-> ""]
    ELSE LET t == to_datetime(rows[i].time_rounded) IN
         IF ~t.ok THEN [ok |-> FALSE, rows |-> <<>>, exc |-> t.exc]
         ELSE ConvertTimes(rows, i + 1,
                  Append(acc, [segment_id |-> rows[i].segment_id,
                               time_rounded |-> floor15(t.val.n),
                               persons |-> rows[i].persons]))

RECURSIVE ParseIds(_, _, _)
ParseIds(rows, i, acc) ==
    IF i > Len(rows) THEN [ok |-> TRUE, rows |-> acc, exc |-> ""]
    ELSE LET ids == parse_id_list_from_string(rows[i].persons) IN
         IF ~ids.ok THEN [ok |-> FALSE, rows |-> <<>>, exc |-> ids.exc]
         ELSE ParseIds(rows, i + 1,
                  Append(acc, [segment_id |-> rows[i].segment_id,
                               time_rounded |-> rows[i].time_rounded,
                               parsed_ids |-> ids.val.items]))

(* Lines 195-208 *)
RECURSIVE Concat(_)
Concat(lists) ==
    IF lists = <<>> THEN <<>> ELSE Head(lists) \o Concat(Tail(lists))

(* aggregate_unique_ids with line 207 active: distinct identifiers. *)
aggregate_distinct_ids(series_of_lists_of_ids) ==
    LET combined_list == Concat(series_of_lists_of_ids) IN
    Cardinality({combined_list[i] : i \in 1..Len(combined_list)})

aggregate_unique_ids(series_of_lists_of_ids) ==
    IF series_of_lists_of_ids = <<>> THEN 0
    ELSE LET combined_list == Concat(series_of_lists_of_ids) IN
         IF combined_list = <<>> THEN 0 ELSE Len(combined_list)

(* Lines 211-218: groupby on (segment_id, time_rounded), the groups in key  *)
(* order, one record per group. *)
KeyLess(a, b) == a[1] < b[1] \/ (a[1] = b[1] /\ a[2] < b[2])

(* SortKeys with ascending=False: the keys from the greatest to the least. *)
RECURSIVE SortKeysDescending(_)
SortKeysDescending(keys) ==
    IF keys = {} THEN <<>>
    ELSE LET greatest == CHOOSE k \in keys : \A o \in keys : o = k \/ KeyLess(o, k)
         IN  <<greatest>> \o SortKeysDescending(keys \ {greatest})

RECURSIVE SortKeys(_)
SortKeys(keys) ==
    IF keys = {} THEN <<>>
    ELSE LET least == CHOOSE k \in keys : \A o \in keys : o = k \/ KeyLess(k, o)
         IN  <<least>> \o SortKeys(keys \ {least})

GroupLists(rows, key) ==
    LET members == SelectSeq(rows, LAMBDA row :
                       <<row.segment_id, row.time_rounded>> = key)
    IN  [i \in 1..Len(members) |-> members[i].parsed_ids]

(* groupby_apply with the groups of count 0 left out. *)
groupby_apply_omits_empty(rows) ==
    LET keys == SortKeys({<<rows[i].segment_id, rows[i].time_rounded>> :
                             i \in 1..Len(rows)})
        all == [k \in 1..Len(keys) |->
                   [segment_id |-> keys[k][1],
                    timestamp_quarter |-> keys[k][2],
                    unique_pedestrian_count |->
                        aggregate_unique_ids(GroupLists(rows, keys[k]))]]
    IN  SelectSeq(all, LAMBDA rec : rec.unique_pedestrian_count # 0)

groupby_apply(rows) ==
    LET keys == SortKeys({<<rows[i].segment_id, rows[i].time_rounded>> :
                             i \in 1..Len(rows)})
    IN  [k \in 1..Len(keys) |->
            [segment_id |-> keys[k][1],
             timestamp_quarter |-> keys[k][2],
             unique_pedestrian_count |->
                 aggregate_unique_ids(GroupLists(rows, keys[k]))]]

PedResult(df, out) == [df |-> df, stdout |-> out, raised |-> ""]

(* AggregateTimed outside the try block: the KeyError of the groupby        *)
(* reaches the caller.                                                      *)
AggregateTimedUncaught(file, rows) ==
    With(ParseIds(rows, 1, <<>>), LAMBDA parsed :
        IF ~parsed.ok THEN PedResult(<<>>, <<"processing_error">>)
        ELSE IF "segment_id" \notin file.columns
        THEN [df |-> <<>>, stdout |-> <<>>, raised |-> "KeyError"]
        ELSE PedResult(groupby_apply(parsed.rows), <<>>))

(* Lines 188-219, once the times are converted. *)
AggregateTimed(file, rows) ==
    With(ParseIds(rows, 1, <<>>), LAMBDA parsed :
        IF ~parsed.ok THEN PedResult(<<>>, <<"processing_error">>)
        ELSE IF "segment_id" \notin file.columns
        THEN PedResult(<<>>, <<"processing_error">>)   \* KeyError
        ELSE PedResult(groupby_apply(parsed.rows), <<>>))

process_pedestrian_data_per_quarter_hour(file) ==
    IF ~file.exists THEN PedResult(<<>>, <<"file_not_found">>)
    ELSE IF "time_rounded" \notin file.columns \/ "persons" \notin file.columns
    THEN PedResult(<<>>, <<"missing_columns">>)
    ELSE With(ConvertTimes(file.rows, 1, <<>>), LAMBDA timed :
             IF ~timed.ok THEN PedResult(<<>>, <<"processing_error">>)
             ELSE AggregateTimed(file, timed.rows))

(* Inputs: the pedestrian event file *)
PedRow(seg, time, persons) ==
    [segment_id |-> seg, time_rounded |-> time, persons |-> persons]

T0902 == <<"0", "9", ":", "0", "2">>
T0905 == <<"0", "9", ":", "0", "5">>
T0915 == <<"0", "9", ":", "1", "5">>
T0920 == <<"0", "9", ":", "2", "0">>
T944 == <<"9", ":", "4", "4">>
T9h02 == <<"9", "h", "0", "2">>
T2400 == <<"2", "4", ":", "0", "0">>

Ids12 == TextCell(<<"[", "1", ",", Ws, "2", "]">>)
Ids3 == TextCell(<<"[", "3", "]">>)
IdsEmpty == TextCell(<<"[", "]">>)
IdsUnclosed == TextCell(<<"[", "1", ",">>)
IdsTuple == TextCell(<<"(", "1", ",", Ws, "2", ")">>)
IdsQuoted == TextCell(<<"[", "1", ",", Ws, "'bad'", "]">>)
IdsFloat == TextCell(<<"[", "18.07", "]">>)
IdsInf == TextCell(<<"[", "1e999", "]">>)

PedSegments == {1, 2}
PedRows ==
    {PedRow(seg, time, Ids12) : seg \in PedSegments, time \in {T0902, T0920}}
    \cup {PedRow(1, T0905, Ids3), PedRow(1, T0915, Ids3), PedRow(2, T944, Ids3),
          PedRow(1, T0920, IdsEmpty)}
    \cup {PedRow(1, T9h02, Ids3), PedRow(2, T2400, Ids12)}
    \cup {PedRow(1, T0902, ids) :
             ids \in {AbsentCell, IdsUnclosed, IdsTuple, IdsQuoted, IdsFloat, IdsInf}}

AllColumns == {"segment_id", "time_rounded", "persons"}
PedFile(rows) == [exists |-> TRUE, columns |-> AllColumns, rows |-> rows]
PedFiles == {PedFile(rows) : rows \in SeqsUpTo(PedRows, MaxPedRows)}

InitPed ==
    /\ pc = "aggregate"
    /\ coord_str = OtherArg(PyNone)
    /\ lat_lon_list = <<>>
    /\ path_csv = NoTable
    /\ processed_path_df = <<>>
    /\ num_failed = -1
    /\ num_empty_original = -1
    /\ num_successfully_parsed = -1
    /\ ped_csv \in PedFiles
    /\ Pedestrian_df = <<>>
    /\ st_log = <<>>
    /\ stdout = <<>>
    /\ raised = ""
    /\ segment_options = <<>>
    /\ selected_segment_id = ""
    /\ details = ""

(* Called on its own, or by the script after load_data (lines 237-238). *)
ProcessPedestrian ==
    /\ pc = "aggregate" \/ (pc = "loaded" /\ ped_csv # NoTable)
    /\ \E r \in {process_pedestrian_data_per_quarter_hour(ped_csv)} :
       /\ Pedestrian_df' = r.df
       /\ stdout' = r.stdout
       /\ raised' = r.raised
    /\ pc' = "aggregated"
    /\ UNCHANGED <<coord_str, lat_lon_list, path_csv, processed_path_df,
                   num_failed, num_empty_original, num_successfully_parsed,
                   ped_csv, st_log, segment_options, selected_segment_id,
                   details>>

NextPed == ProcessPedestrian

SpecPed == InitPed /\ [][NextPed]_vars

(* Inputs: no file at the path, or a file without some of the columns.  A  *)
(* column that is not there has no cells: the rows hold segment 0, an empty *)
(* time text, an absent identifier cell in its place, and nothing reads     *)
(* them.                                                                    *)
MissingFile == [exists |-> FALSE, columns |-> {}, rows |-> <<>>]
LackingFile(columns, rows) ==
    [exists |-> TRUE, columns |-> columns,
     rows |-> [i \in 1..Len(rows) |->
                  PedRow(IF "segment_id" \in columns THEN rows[i].segment_id ELSE 0,
                         IF "time_rounded" \in columns THEN rows[i].time_rounded
                                                       ELSE <<>>,
                         IF "persons" \in columns THEN rows[i].persons
                                                  ELSE AbsentCell)]]
FewPedRows ==
    {PedRow(1, T0902, Ids12), PedRow(2, T944, Ids3), PedRow(1, T9h02, Ids3),
     PedRow(1, T0902, IdsInf), PedRow(2, T0920, IdsUnclosed)}
IncompleteFiles ==
    {MissingFile}
    \cup {LackingFile(columns, rows) :
             columns \in (SUBSET AllColumns) \ {AllColumns},
             rows \in SeqsUpTo(FewPedRows, MaxPedRows - 1)}

InitPedFrom(files) ==
    /\ pc = "aggregate"
    /\ coord_str = OtherArg(PyNone)
    /\ lat_lon_list = <<>>
    /\ path_csv = NoTable
    /\ processed_path_df = <<>>
    /\ num_failed = -1
    /\ num_empty_original = -1
    /\ num_successfully_parsed = -1
    /\ ped_csv \in files
    /\ Pedestrian_df = <<>>
    /\ st_log = <<>>
    /\ stdout = <<>>
    /\ raised = ""
    /\ segment_options = <<>>
    /\ selected_segment_id = ""
    /\ details = ""

InitPedFile == InitPedFrom(IncompleteFiles)

SpecPedFile == InitPedFile /\ [][NextPed]_vars

(* Inputs: the files whose rows are compared in every order. *)
OrderRows ==
    {PedRow(1, T0902, Ids12), PedRow(2, T0902, Ids12), PedRow(1, T0905, Ids3),
     PedRow(2, T944, Ids3), PedRow(1, T0920, IdsEmpty), PedRow(1, T9h02, Ids3),
     PedRow(1, T0902, IdsQuoted), PedRow(1, T0902, IdsInf)}
OrderFiles == {PedFile(rows) : rows \in SeqsUpTo(OrderRows, MaxPedRows)}

InitPedOrder == InitPedFrom(OrderFiles)

SpecPedOrder == InitPedOrder /\ [][NextPed]_vars

-----------------------------------------------------------------------------
(* The script: the segment selector and the segment-details panel *)

(* Line 251: unique().tolist(): the distinct values, in order of first      *)
(* appearance.                                                              *)
RECURSIVE unique(_)
unique(values) ==
    IF values = <<>> THEN <<>>
    ELSE LET rest == unique(SubSeq(values, 1, Len(values) - 1))
             last == values[Len(values)]
         IN  IF \E k \in 1..Len(rest) : rest[k] = last THEN rest
             ELSE Append(rest, last)

(* Lines 254-263.  float() of a str raises nothing but ValueError. *)
robust_num_key(item_str) ==
    LET r == str_to_float(item_str) IN
    IF r.ok THEN r.val ELSE PyInf

(* a < b on floats: false whenever one of them is NaN. *)
float_lt(a, b) ==
    /\ a.s # "nan"
    /\ b.s # "nan"
    /\ a.s # "inf"
    /\ (b.s = "inf" \/ a.n < b.n)

(* Line 266: sorted(..., key=...), as CPython sorts a list of fewer than 64 *)
(* elements: it takes the run the list starts with (not descending, or      *)
(* strictly descending and then reversed) and adds the remaining elements   *)
(* one by one by binary insertion.  Only key(x) < key(y) is ever asked.     *)
Keyed(item) == [key |-> robust_num_key(item), item |-> item]

RECURSIVE count_run(_, _, _)
count_run(a, i, descending) ==
    IF i > Len(a) THEN Len(a)
    ELSE IF float_lt(a[i].key, a[i - 1].key) = descending
    THEN count_run(a, i + 1, descending)
    ELSE i - 1

reverse_slice(a, n) ==
    [k \in 1..Len(a) |-> IF k <= n THEN a[n + 1 - k] ELSE a[k]]

(* The place of pivot among a[1..start], as a count of elements before it. *)
RECURSIVE insertion_point(_, _, _, _)
insertion_point(a, pivot, l, r) ==
    IF l >= r THEN l
    ELSE LET p == l + ((r - l) \div 2) IN
         IF float_lt(pivot.key, a[p + 1].key)
         THEN insertion_point(a, pivot, l, p)
         ELSE insertion_point(a, pivot, p + 1, r)

RECURSIVE binarysort(_, _)
binarysort(a, start) ==
    IF start >= Len(a) THEN a
    ELSE LET pivot == a[start + 1]
             l == insertion_point(a, pivot, 0, start)
         IN  binarysort(SubSeq(a, 1, l) \o <<pivot>> \o SubSeq(a, l + 1, start)
                            \o SubSeq(a, start + 2, Len(a)),
                        start + 1)

sorted(items) ==
    LET a == [k \in 1..Len(items) |-> Keyed(items[k])] IN
    IF Len(a) < 2 THEN items
    ELSE LET descending == float_lt(a[2].key, a[1].key)
             n == count_run(a, 3, descending)
             done == binarysort(IF descending THEN reverse_slice(a, n) ELSE a, n)
         IN  [k \in 1..Len(done) |-> done[k].item]

(* Lines 245-284 *)
Overview == "Overview"
BuildSelector ==
    /\ pc = "aggregated"
    /\ path_csv # NoTable
    /\ IF processed_path_df = <<>>
       THEN /\ st_log' = Append(st_log, StCall("warning", "no_path_data", PyNone, "", 0))
            /\ pc' = "stopped"                       \* st.stop()
            /\ UNCHANGED segment_options
       ELSE /\ \E sorted_ids \in
                  {sorted(unique([k \in 1..Len(processed_path_df) |->
                                     processed_path_df[k].segment_id]))} :
                  segment_options' = <<Overview>> \o sorted_ids
            /\ pc' = "selecting"
            /\ UNCHANGED st_log
    /\ UNCHANGED <<coord_str, lat_lon_list, path_csv, processed_path_df,
                   num_failed, num_empty_original, num_successfully_parsed,
                   ped_csv, Pedestrian_df, stdout, raised, selected_segment_id,
                   details>>

(* Line 284: the user picks one of the options. *)
SelectOption ==
    /\ pc = "selecting"
    /\ \E k \in 1..Len(segment_options) :
          selected_segment_id' = segment_options[k]
    /\ pc' = "rendering"
    /\ UNCHANGED <<coord_str, lat_lon_list, path_csv, processed_path_df,
                   num_failed, num_empty_original, num_successfully_parsed,
                   ped_csv, Pedestrian_df, st_log, stdout, raised,
                   segment_options, details>>

(* Lines 386-518: the details panel.  int(selected_segment_id) is taken at  *)
(* line 495, outside any try block; the per-segment metrics are read from   *)
(* the data files of lines 17-24, which hold segments 1 to 9.               *)
RenderDetails ==
    /\ pc = "rendering"
    /\ IF selected_segment_id = Overview
       THEN /\ details' = "overview"
            /\ pc' = "rendered"
            /\ UNCHANGED <<st_log, raised>>
       ELSE \E n \in {str_to_int(selected_segment_id)} :
               IF ~n.ok
               THEN /\ raised' = n.exc
                    /\ pc' = "crashed"
                    /\ UNCHANGED <<st_log, details>>
               ELSE /\ details' = IF 0 < n.val.n /\ n.val.n < 10
                                   THEN "metrics" ELSE "no_data"
                    /\ st_log' = IF Pedestrian_df = <<>>
                                  THEN Append(st_log, StCall("warning", "no_ped_data",
                                                             PyNone, "", 0))
                                  ELSE st_log
                    /\ pc' = "rendered"
                    /\ UNCHANGED raised
    /\ UNCHANGED <<coord_str, lat_lon_list, path_csv, processed_path_df,
                   num_failed, num_empty_original, num_successfully_parsed,
                   ped_csv, Pedestrian_df, stdout, segment_options,
                   selected_segment_id>>

(* Inputs: the path file's segment_id fields, and the files of a run. *)
SelectorFields == {"1", "2", "10", "2.5", "abc", "", "inf"}
SelectorRows ==
    {PathRow(id, TextCell(ListText(<<GoodPair>>))) : id \in SelectorFields}
    \cup {PathRow("1", TextCell(NotAList))}
(* An empty file is no table: read_csv raises on it. *)
SelectorTables == SeqsUpTo(SelectorRows, MaxSegments) \ {NoTable}
AppPedFiles ==
    {MissingFile, PedFile(<<PedRow(1, T0902, Ids12)>>),
     PedFile(<<PedRow(1, T0902, Ids12), PedRow(2, T944, Ids3)>>)}

InitApp ==
    /\ pc = "load"
    /\ coord_str = OtherArg(PyNone)
    /\ lat_lon_list = <<>>
    /\ path_csv \in SelectorTables
    /\ processed_path_df = <<>>
    /\ num_failed = -1
    /\ num_empty_original = -1
    /\ num_successfully_parsed = -1
    /\ ped_csv \in AppPedFiles
    /\ Pedestrian_df = <<>>
    /\ st_log = <<>>
    /\ stdout = <<>>
    /\ raised = ""
    /\ segment_options = <<>>
    /\ selected_segment_id = ""
    /\ details = ""

NextApp ==
    \/ LoadData
    \/ ProcessPedestrian
    \/ BuildSelector
    \/ SelectOption
    \/ RenderDetails

SpecApp == InitApp /\ [][NextApp]_vars

-----------------------------------------------------------------------------
(* Properties of parse_and_convert_coordinates (SpecParse) *)

ParseDone == pc \in {"returned", "raised"}

(* What the argument's text evaluates to, when it is a non-blank str. *)
ParsedArg == literal_eval(coord_str.text)
ParsesToList ==
    /\ coord_str.isstr
    /\ strip(coord_str.text) # <<>>
    /\ ParsedArg.ok
    /\ ParsedArg.val.t = "list"

IsPairShaped(e) == e.t \in {"list", "tuple"} /\ Len(e.items) = 2
IsValidPair(e) ==
    IsPairShaped(e) /\ py_float(e.items[1]).ok /\ py_float(e.items[2]).ok

(* One (lat, lon) point per valid (lon, lat) element, in input order. *)
ExpectedPoints(items) ==
    LET valid == SelectSeq(items, IsValidPair) IN
    [i \in 1..Len(valid) |->
        <<py_float(valid[i].items[2]).val, py_float(valid[i].items[1]).val>>]

ItemWarnings(log) ==
    SelectSeq(log, LAMBDA c : c.fn = "warning"
                              /\ c.msg \in {"non_numeric", "non_conforming"})

(* C1: for every coordinate string that parses to a list, the parser        *)
(* returns, in input order, exactly one point (float(e[1]), float(e[0]))    *)
(* for each element e that is a 2-element list/tuple with both components   *)
(* convertible to float, and nothing for any other element.                 *)
C1_ListYieldsItsValidPairs ==
    (ParseDone /\ ParsesToList) =>
        /\ pc = "returned"
        /\ lat_lon_list = ExpectedPoints(ParsedArg.val.items)

Point5935_1807 == <<PyFloat(5935), PyFloat(1807)>>

(* C2 as stated: parsing "[(18.07, 59.35), (18.08, bad)]", with the bare    *)
(* token bad, returns exactly the point (59.35, 18.07) and emits exactly    *)
(* one skipped-element diagnostic.                                          *)
C2_BareBadCostsOneElement ==
    (ParseDone /\ coord_str = StrArg(BareBadExample)) =>
        /\ lat_lon_list = <<Point5935_1807>>
        /\ Len(ItemWarnings(st_log)) = 1

(* An element that is pair-shaped and fails float() with ValueError or      *)
(* TypeError: it holds a non-numeric literal. *)
FloatExc(v) == py_float(v).exc
IsNonNumericPair(e) ==
    /\ IsPairShaped(e)
    /\ \A k \in 1..2 : FloatExc(e.items[k]) \in {"", "ValueError", "TypeError"}
    /\ \E k \in 1..2 : FloatExc(e.items[k]) # ""

OtherwiseValidList ==
    /\ ParsesToList
    /\ \A k \in 1..Len(ParsedArg.val.items) :
          IsValidPair(ParsedArg.val.items[k]) \/ IsNonNumericPair(ParsedArg.val.items[k])

(* C2, amended: the string with the bare token bad is rejected as a whole   *)
(* (no point, one parse-error diagnostic, no skipped-element diagnostic);   *)
(* with the non-numeric component written as a literal, 'bad', the parser   *)
(* returns exactly (59.35, 18.07) and emits exactly one skipped-element     *)
(* diagnostic; and in any list of pairs whose components are numeric or     *)
(* non-numeric literals, each non-numeric pair costs only itself and emits  *)
(* one diagnostic.                                                          *)
C2_NonNumericLiteralCostsOneElement ==
    ParseDone =>
        /\ coord_str = StrArg(BareBadExample) =>
              /\ lat_lon_list = <<>>
              /\ st_log = <<StCall("error", "parse_error", PyNone, "", 0)>>
        /\ coord_str = StrArg(QuotedBadExample) =>
              /\ lat_lon_list = <<Point5935_1807>>
              /\ Len(st_log) = 1
              /\ Len(ItemWarnings(st_log)) = 1
        /\ OtherwiseValidList =>
              /\ pc = "returned"
              /\ lat_lon_list = ExpectedPoints(ParsedArg.val.items)
              /\ Len(st_log) = Len(ParsedArg.val.items) - Len(lat_lon_list)
              /\ Len(ItemWarnings(st_log)) = Len(st_log)

C2_Witness ==
    /\ pc = "returned"
    /\ coord_str = StrArg(QuotedBadExample)
    /\ lat_lon_list = <<Point5935_1807>>
    /\ Len(ItemWarnings(st_log)) = 1

(* C3: parse_and_convert_coordinates never lets an exception escape: for    *)
(* every input it returns a possibly empty list of points.                  *)
C3_NoExceptionEscapes == pc # "raised" /\ raised = ""

-----------------------------------------------------------------------------
(* Properties of process_pedestrian_data_per_quarter_hour (SpecPed) *)

Aggregated == pc = "aggregated"
PedIn == ped_csv.rows
PedIdx == 1..Len(PedIn)

TimeOf(i) == to_datetime(PedIn[i].time_rounded)
BucketOf(i) == floor15(TimeOf(i).val.n)
IdsOf(i) == parse_id_list_from_string(PedIn[i].persons)
AllTimesParse == \A i \in PedIdx : TimeOf(i).ok
AllIdsHandled == \A i \in PedIdx : IdsOf(i).ok

(* Detections a row contributes: the length of its parsed identifier list,  *)
(* zero when the text yields no list of integers.                           *)
Contribution(i) == IF IdsOf(i).ok THEN Len(IdsOf(i).val.items) ELSE 0

InGroup(i, seg, bucket) ==
    PedIn[i].segment_id = seg /\ TimeOf(i).ok /\ BucketOf(i) = bucket

RECURSIVE GroupCountFrom(_, _, _)
GroupCountFrom(i, seg, bucket) ==
    IF i > Len(PedIn) THEN 0
    ELSE (IF InGroup(i, seg, bucket) THEN Contribution(i) ELSE 0)
         + GroupCountFrom(i + 1, seg, bucket)

GroupCount(seg, bucket) == GroupCountFrom(1, seg, bucket)

OutIdx == 1..Len(Pedestrian_df)
HasRecord(seg, bucket, count) ==
    \E k \in OutIdx :
        /\ Pedestrian_df[k].segment_id = seg
        /\ Pedestrian_df[k].timestamp_quarter = bucket
        /\ Pedestrian_df[k].unique_pedestrian_count = count

BucketOfRowIsCounted(i) ==
    HasRecord(PedIn[i].segment_id, BucketOf(i),
              GroupCount(PedIn[i].segment_id, BucketOf(i)))

(* C4: a row whose identifier-list text is malformed, empty, not a list, or *)
(* holds an element that cannot be turned into an integer contributes zero  *)
(* detections to its bucket, and never makes the aggregation fail or lose   *)
(* the other rows' counts.                                                  *)
C4_BadIdsRowCountsZero ==
    (Aggregated /\ AllTimesParse) => \A i \in PedIdx : BucketOfRowIsCounted(i)

(* C5 as stated: a row whose time-of-day text cannot be parsed is handled   *)
(* at row granularity; the buckets of all rows with parseable times are     *)
(* still produced with their correct counts.                                *)
C5_BadTimeCostsOneRow ==
    (Aggregated /\ AllIdsHandled) =>
        \A i \in PedIdx : TimeOf(i).ok => BucketOfRowIsCounted(i)

(* C5, amended: a row whose time-of-day text cannot be parsed makes the     *)
(* aggregator report an error and return an empty table; no exception       *)
(* reaches the caller, and no bucket is produced, also not for the rows     *)
(* whose times parse.                                                       *)
C5_BadTimeEmptiesResult ==
    (Aggregated /\ ~AllTimesParse) =>
        /\ Pedestrian_df = <<>>
        /\ raised = ""
        /\ stdout = <<"processing_error">>

C5_Witness ==
    /\ Aggregated
    /\ Pedestrian_df = <<>>
    /\ \E i \in PedIdx : ~TimeOf(i).ok
    /\ \E i \in PedIdx : TimeOf(i).ok /\ Contribution(i) > 0

SpecExample ==
    PedFile(<<PedRow(1, T0902, Ids12), PedRow(1, T0905, Ids3),
              PedRow(1, T0920, IdsEmpty)>>)
BucketRecord(seg, bucket, count) ==
    [segment_id |-> seg, timestamp_quarter |-> bucket,
     unique_pedestrian_count |-> count]
NineOClock == 9 * MinutesPerHour
QuarterPastNine == NineOClock + QuarterHour

C12_OutputStrictlyAscending ==
    /\ \A k \in 1..(Len(Pedestrian_df) - 1) :
          LET a == Pedestrian_df[k]
              b == Pedestrian_df[k + 1]
          IN  \/ a.segment_id < b.segment_id
              \/ /\ a.segment_id = b.segment_id
                 /\ a.timestamp_quarter < b.timestamp_quarter
    /\ \A j, k \in OutIdx :
          (/\ Pedestrian_df[j].segment_id = Pedestrian_df[k].segment_id
           /\ Pedestrian_df[j].timestamp_quarter = Pedestrian_df[k].timestamp_quarter)
          => j = k

C12_Witness ==
    /\ Aggregated
    /\ ped_csv = PedFile(<<PedRow(2, T944, Ids3), PedRow(1, T0920, Ids12),
                           PedRow(1, T0902, Ids12)>>)
    /\ Pedestrian_df = <<BucketRecord(1, NineOClock, 2),
                         BucketRecord(1, QuarterPastNine, 2),
                         BucketRecord(2, NineOClock + 2 * QuarterHour, 1)>>

(* The rows of a table in another order, and the records of a table. *)
Reordered(rows, p) == [i \in 1..Len(rows) |-> rows[p[i]]]
RecordSet(df) == {df[k] : k \in 1..Len(df)}

(* C13: the result is invariant under permutation of the input rows: for    *)
(* every input table and every reordering of its rows, the set of output    *)
(* (segment_id, bucket_start, count) records is identical.                  *)
C13_RowOrderDoesNotMatter ==
    Aggregated =>
        \A p \in Permutations(PedIdx) :
            RecordSet(process_pedestrian_data_per_quarter_hour(
                          PedFile(Reordered(PedIn, p))).df)
            = RecordSet(Pedestrian_df)

C13_Witness ==
    /\ Aggregated
    /\ ped_csv = PedFile(<<PedRow(2, T944, Ids3), PedRow(1, T0905, Ids3),
                           PedRow(1, T0902, Ids12)>>)
    /\ RecordSet(Pedestrian_df) = {BucketRecord(1, NineOClock, 3),
                                   BucketRecord(2, NineOClock + 2 * QuarterHour, 1)}
    /\ process_pedestrian_data_per_quarter_hour(
           PedFile(<<PedRow(1, T0902, Ids12), PedRow(1, T0905, Ids3),
                     PedRow(2, T944, Ids3)>>)).df = Pedestrian_df

(* C14: when the pedestrian event file is missing, or lacks a required      *)
(* column (time_rounded, persons, or the segment_id column used for         *)
(* grouping), the aggregator returns an empty table and raises no exception *)
(* to its caller; it prints what went wrong.                                *)
C14_MissingFileOrColumnGivesEmpty ==
    (Aggregated /\ (~ped_csv.exists \/ ped_csv.columns # AllColumns)) =>
        /\ Pedestrian_df = <<>>
        /\ raised = ""
        /\ Len(stdout) = 1

C14_Witness ==
    /\ Aggregated
    /\ ped_csv = LackingFile({"time_rounded", "persons"},
                             <<PedRow(1, T0902, Ids12), PedRow(2, T944, Ids3)>>)
    /\ Pedestrian_df = <<>>
    /\ stdout = <<"processing_error">>
    /\ raised = ""

-----------------------------------------------------------------------------
(* The three functions side by side: each behaviour runs one of them. *)

Init == InitParse \/ InitLoad \/ InitPed

Next == ParseCall \/ LoadData \/ ProcessPedestrian

Spec == Init /\ [][Next]_vars

-----------------------------------------------------------------------------
(* Properties of load_data (SpecLoad, Spec) *)

Loaded == pc = "loaded"
PathIdx == 1..Len(path_csv)

RowText(i) == fillna(path_csv[i].coordinates_str)
RowBlank(i) == strip(RowText(i)) = <<>>
RowResult(i) == parse_and_convert_coordinates(StrArg(RowText(i)))

(* The class of an input row. *)
RowClass(i) ==
    IF RowBlank(i) THEN "no_data"
    ELSE IF RowResult(i).raised # "" THEN "unclassified"
    ELSE IF Len(RowResult(i).ret) >= 1 THEN "successful"
    ELSE "failed"

RowsOfClass(c) == {i \in PathIdx : RowClass(i) = c}

RECURSIVE SuccessfulFrom(_)
SuccessfulFrom(i) ==
    IF i > Len(path_csv) THEN <<>>
    ELSE (IF RowClass(i) = "successful"
          THEN <<[segment_id |-> astype_str(path_csv, i),
                  locations |-> RowResult(i).ret]>>
          ELSE <<>>)
         \o SuccessfulFrom(i + 1)

RECURSIVE FailedSegmentsFrom(_)
FailedSegmentsFrom(i) ==
    IF i > Len(path_csv) THEN <<>>
    ELSE (IF RowClass(i) = "failed" THEN <<astype_str(path_csv, i)>> ELSE <<>>)
         \o FailedSegmentsFrom(i + 1)

(* The segment ids that the report itemizes, in order. *)
Itemized ==
    LET calls == SelectSeq(st_log, LAMBDA c : c.msg = "failed_segment") IN
    [k \in 1..Len(calls) |-> calls[k].seg]

LoadCompleted == num_failed >= 0

(* Elements of row i's list that the parser skips. *)
SkippedIn(i) ==
    LET v == literal_eval(RowText(i)) IN
    IF RowBlank(i) \/ ~v.ok \/ v.val.t # "list" THEN 0
    ELSE Len(v.val.items) - Len(SelectSeq(v.val.items, IsValidPair))

RECURSIVE SkippedFrom(_)
SkippedFrom(i) ==
    IF i > Len(path_csv) THEN 0 ELSE SkippedIn(i) + SkippedFrom(i + 1)

HasCall(msg, n) == \E k \in 1..Len(st_log) : st_log[k].msg = msg /\ st_log[k].n = n

(* A pedestrian row whose identifier text is there but is no literal list   *)
(* of integers.                                                             *)
IdsMalformed(i) ==
    LET cell == PedIn[i].persons
        v == literal_eval(cell.text)
    IN  /\ ~cell.absent
        /\ strip(cell.text) # <<>>
        /\ \/ ~v.ok
           \/ v.val.t # "list"
           \/ \E k \in 1..Len(v.val.items) : ~py_int(v.val.items[k]).ok

(* C8 as stated: every discarded input is accounted for in a diagnostic: a  *)
(* path row with zero parsed points, a skipped coordinate element, a        *)
(* pedestrian row whose identifier list is malformed each increment a       *)
(* diagnostic count or emit a diagnostic message.                           *)
C8_NoSilentDiscard ==
    /\ Loaded =>
          /\ (\E i \in PathIdx : RowClass(i) \in {"no_data", "failed"}) => st_log # <<>>
          /\ SkippedFrom(1) > 0 => st_log # <<>>
    /\ Aggregated => ((\E i \in PedIdx : IdsMalformed(i)) => st_log \o stdout # <<>>)

(* C8, amended: every skipped coordinate element emits one warning; a load  *)
(* that completes counts every non-blank row without points in the failure  *)
(* count, itemizes the first ten of them and reports the count; a load that *)
(* an exception of the parser cuts short emits a load error; but a blank    *)
(* path row and a pedestrian row whose identifier list is malformed are     *)
(* treated as empty without any diagnostic.                                 *)
C8_PathDiscardsReportedOthersSilent ==
    /\ Loaded =>
          /\ LoadCompleted =>
                /\ num_failed = Cardinality(RowsOfClass("failed"))
                /\ Len(Itemized) = Min(FailedDisplayCap, num_failed)
                /\ num_failed > 0 => HasCall("ignored_count", num_failed)
                /\ Len(ItemWarnings(st_log)) = SkippedFrom(1)
          /\ ~LoadCompleted => HasCall("load_exception", 0)
          /\ (\A i \in PathIdx : RowBlank(i)) => st_log = <<>>
    /\ Aggregated =>
          ((AllTimesParse /\ AllIdsHandled) => (st_log = <<>> /\ stdout = <<>>))

C8_Witness ==
    /\ Loaded
    /\ path_csv = <<PathRow("1", TextCell(QuotedBadExample)),
                    PathRow("2", TextCell(NotAList))>>
    /\ num_failed = 1
    /\ Itemized = <<"2">>
    /\ Len(ItemWarnings(st_log)) = 1

(* C9: every input path row falls in exactly one of the classes successful, *)
(* failed and no-data; the returned path table holds exactly one record per *)
(* successful row, none with zero points; and the failure count equals the  *)
(* number of failed rows.                                                   *)
C9_RowsPartitionedAndCounted ==
    Loaded =>
        /\ \A i \in PathIdx : RowClass(i) \in {"successful", "failed", "no_data"}
        /\ processed_path_df = SuccessfulFrom(1)
        /\ num_failed = Cardinality(RowsOfClass("failed"))

BlankArg ==
    \/ coord_str.isstr /\ strip(coord_str.text) = <<>>
    \/ ~coord_str.isstr /\ coord_str.val \in {PyNone, PyNaN}

(* C10: an empty string, a whitespace-only string and a None/absent value   *)
(* each make the parser return an empty sequence without raising; in        *)
(* load_data such a row is counted neither as a success nor as a failure    *)
(* and is not itemized in the failure list.                                 *)
C10_BlankIsNoDataNotFailure ==
    /\ (ParseDone /\ BlankArg) =>
          (pc = "returned" /\ lat_lon_list = <<>> /\ raised = "")
    /\ Loaded =>
          /\ \A k \in 1..Len(processed_path_df) :
                Len(processed_path_df[k].locations) > 0
          /\ Len(processed_path_df) <= Cardinality(PathIdx \ RowsOfClass("no_data"))
          /\ Len(Itemized) <= Len(FailedSegmentsFrom(1))
          /\ Itemized = SubSeq(FailedSegmentsFrom(1), 1, Len(Itemized))
          /\ LoadCompleted =>
                /\ num_empty_original = Cardinality(RowsOfClass("no_data"))
                /\ num_failed + num_successfully_parsed
                      = Len(path_csv) - Cardinality(RowsOfClass("no_data"))

C10_Witness ==
    /\ Loaded
    /\ path_csv = <<PathRow("1", TextCell(<<Ws>>)), PathRow("2", TextCell(NotAList))>>
    /\ processed_path_df = <<>>
    /\ num_failed = 1
    /\ num_successfully_parsed = 0
    /\ num_empty_original = 1
    /\ Itemized = <<"2">>

(* The overflow counts that the report states ("... et N autres segments"). *)
OverflowCounts ==
    LET calls == SelectSeq(st_log, LAMBDA c : c.msg = "failed_more") IN
    [k \in 1..Len(calls) |-> calls[k].n]

(* C11: for any number F of failed path rows, load_data itemizes exactly    *)
(* min(F, 10) of them, the first ones in row order, and when F > 10 the     *)
(* overflow count it reports is F minus the number itemized.                *)
C11_ItemizesFirstTenCountsTheRest ==
    Loaded =>
        LET failed == FailedSegmentsFrom(1) IN
        /\ Len(Itemized) = Min(Len(failed), FailedDisplayCap)
        /\ \A k \in 1..Len(Itemized) : Itemized[k] = failed[k]
        /\ OverflowCounts = IF Len(failed) > FailedDisplayCap
                            THEN <<Len(failed) - Len(Itemized)>>
                            ELSE <<>>

-----------------------------------------------------------------------------
(* Properties of the selector and the details panel (SpecApp) *)

SelectorBuilt == segment_options # <<>>
Listed == Tail(segment_options)
(* An id that converts to a number: float() takes it and the result is a   *)
(* number (not NaN, not infinite).                                          *)
IsNumeric(id) == str_to_float(id).ok /\ str_to_float(id).val.s = ""
NumberOf(id) == str_to_float(id).val.n

(* C15: the segment selector lists the distinct segment ids so that every   *)
(* id that converts to a number comes before every id that does not, and    *)
(* the numeric ids are in ascending numeric order ("2" before "10").        *)
C15_NumericIdsFirstAscending ==
    SelectorBuilt =>
        /\ segment_options[1] = Overview
        /\ {Listed[k] : k \in 1..Len(Listed)}
              = {processed_path_df[k].segment_id : k \in 1..Len(processed_path_df)}
        /\ \A i, j \in 1..Len(Listed) :
              i < j =>
                 /\ Listed[i] # Listed[j]
                 /\ IsNumeric(Listed[j]) => IsNumeric(Listed[i])
                 /\ (IsNumeric(Listed[i]) /\ IsNumeric(Listed[j]))
                       => NumberOf(Listed[i]) <= NumberOf(Listed[j])

(* C16: every option the selector offers can be selected without an         *)
(* exception: for "Overview" and for every segment id of the loaded path    *)
(* table the details panel is rendered, showing the metrics (id between 1   *)
(* and 9) or the "no data available" notice.                                *)
C16_EveryOptionRenders ==
    /\ pc # "crashed"
    /\ raised = ""
    /\ pc = "rendered" =>
          \/ selected_segment_id = Overview /\ details = "overview"
          \/ selected_segment_id # Overview /\ details \in {"metrics", "no_data"}

====
